---- MODULE Spec2Model ----
(***************************************************************************)
(* The quiz session of quiz_game.py: the keys of st.session_state, the     *)
(* Firestore collection quiz_scores, the widget callbacks (check_answer,   *)
(* start_quiz, start_quiz_same_settings, reset_quiz, toggle_review_mode)   *)
(* and the script run main() that follows widget events.                   *)
(*                                                                         *)
(* A key of st.session_state that is absent is the empty tuple <<>>, a    *)
(* key holding v is <<v>>.  Python's None is the string "None".            *)
(***************************************************************************)
EXTENDS Integers, Sequences, FiniteSets, TLC

\* ---- bounds of the model ------------------------------------------------
\* longest batch of raw records the trivia service returns
MaxQ == 2
\* most documents the collection quiz_scores holds
MaxStore == 2

\* ---- values ---------------------------------------------------------------
None == "None"
Absent == <<>>
Has(k) == k # <<>>
Val(k) == k[1]
Range(s) == {s[i] : i \in 1..Len(s)}

DIFFICULTY_OPTIONS ==
  [n \in {"Very Easy (All)", "Easy", "Medium", "Hard"} |->
     CASE n = "Very Easy (All)" -> "all"
       [] n = "Easy" -> "easy"
       [] n = "Medium" -> "medium"
       [] OTHER -> "hard"]

CATEGORY_OPTIONS ==
  [n \in {"Mix (Any Category)", "General Knowledge", "Books", "Film", "Music",
          "Science & Nature", "Computers", "Mathematics", "Geography",
          "History", "Sports"} |->
     CASE n = "Mix (Any Category)" -> 0
       [] n = "General Knowledge" -> 9
       [] n = "Books" -> 10
       [] n = "Film" -> 11
       [] n = "Music" -> 12
       [] n = "Science & Nature" -> 17
       [] n = "Computers" -> 18
       [] n = "Mathematics" -> 19
       [] n = "Geography" -> 22
       [] n = "History" -> 23
       [] OTHER -> 21]

\* the entries of the two select boxes the respondent picks from in the model
DifficultyChoices == {"Very Easy (All)", "Easy"}
CategoryChoices == {"Mix (Any Category)"}
\* what the respondent types into the username field
Usernames == {"", "Pr1meGG"}

VARIABLES
  db,                  \* st.session_state.db: "None" or "client"
  served,              \* the raw records the trivia service of the deployment holds
  API_KEY,             \* TRUE iff the Gemini key of st.secrets is non-empty
  selected_difficulty, \* st.session_state['selected_difficulty']
  selected_category,   \* st.session_state['selected_category']
  quiz_started,        \* absent, <<FALSE>> or <<TRUE>>
  questions_df,        \* absent or <<sequence of questions>>
  num_questions,       \* absent or <<n>>
  current_index,       \* absent or <<i>>
  score,               \* absent or <<s>>
  submitted,           \* absent or <<b>>
  answer_history,      \* absent or <<sequence of answer records>>
  score_submitted,
  review_mode,
  last_result,         \* "None", "correct" or "incorrect"
  radios,              \* the k for which key radio_k is in st.session_state
  store,               \* the documents of collection quiz_scores, in order of arrival
  screen,              \* page the last script run rendered
  form_rendered,       \* the score submission form is on that page
  leaderboard_view,    \* absent or <<rows of the leaderboard table on that page>>
  percentage_shown,    \* absent or <<the "Percentage Correct" of that page>>
  notice,              \* st.error / st.warning / st.success text of the last step
  submit_calls,        \* check_answer calls in a row, no other step between (capped at 2)
  fetch_log,           \* history positions handed to fetch_explanation, in call order
  review_trace,        \* what toggle_review_mode did, in order, if it was the last step
  session_entries,     \* documents added since the last successful start_quiz
  request              \* absent or <<params of the last requests.get(API_URL, ...)>>

session == <<quiz_started, questions_df, num_questions, current_index, score,
             submitted, answer_history, score_submitted, review_mode, last_result>>
config == <<selected_difficulty, selected_category>>
ui == <<radios, screen, form_rendered, leaderboard_view, percentage_shown>>
env == <<db, served, API_KEY>>
vars == <<db, served, API_KEY, selected_difficulty, selected_category, quiz_started,
          questions_df, num_questions, current_index, score, submitted,
          answer_history, score_submitted, review_mode, last_result, radios,
          store, screen, form_rendered, leaderboard_view, percentage_shown, notice,
          submit_calls, fetch_log, review_trace, session_entries, request>>

\* ---- trivia service and decoder -----------------------------------------
\* A transport-encoded field is <<"b64", t>> with t the HTML-escaped text;
\* <<"bad">> is a value base64.b64decode rejects, <<"missing">> a key the
\* record does not have.
B64(t) == <<"b64", t>>

\* html.unescape on the texts of the model
HtmlUnescape(t) ==
  CASE t = "Q1 &amp; more" -> "Q1 & more"
    [] t = "A&amp;B" -> "A&B"
    [] OTHER -> t

\* html.unescape(base64.b64decode(f).decode('utf-8')): <<text>>, or <<>> when it raises
DecodeField(f) == IF f[1] = "b64" THEN <<HtmlUnescape(f[2])>> ELSE <<>>

RawGood1 ==
  [question |-> B64("Q1 &amp; more"), correct_answer |-> B64("A&amp;B"),
   incorrect_answers |-> <<B64("C")>>, difficulty |-> B64("easy"),
   category |-> B64("General Knowledge")]
RawGood2 ==
  [question |-> B64("Q2"), correct_answer |-> B64("C"),
   incorrect_answers |-> <<B64("A&amp;B")>>, difficulty |-> B64("easy"),
   category |-> B64("General Knowledge")]
RawMalformed == [RawGood1 EXCEPT !.correct_answer = <<"bad">>]
RawItems == {RawGood1, RawGood2, RawMalformed}
\* a record without the key 'category'
RawMissing == [RawGood2 EXCEPT !.category = <<"missing">>]

\* the strings a decoded option can be, and what the radio can hold
OptionTexts == {"A&B", "C"}
\* a radio that always has an option selected
RadioValuesSelected == OptionTexts
\* st.radio(..., index=None): the value is None until an option is selected
RadioValues == OptionTexts \cup {None}

RECURSIVE SeqsUpTo(_, _)
SeqsUpTo(S, n) ==
  IF n = 0 THEN {<<>>}
  ELSE LET shorter == SeqsUpTo(S, n - 1)
       IN shorter \cup {Append(q, x) : q \in {r \in shorter : Len(r) = n - 1}, x \in S}

\* the deployments explored: without Firestore credentials and a trivia
\* service holding every record of the model, or with Firestore and a
\* trivia service holding one well-formed and one malformed record
Deployments ==
  {[db |-> None, served |-> RawItems],
   [db |-> "client", served |-> {RawGood1, RawMalformed}]}

\* replies of requests.get(API_URL, ...) of a service holding the records
\* pool: a transport failure, or a JSON body whose results are up to MaxQ
\* different records of the service
ResponsesFor(pool) ==
  {[kind |-> "network_error", response_code |-> 0, results |-> <<>>],
   [kind |-> "json", response_code |-> 1, results |-> <<>>]}
  \cup {[kind |-> "json", response_code |-> 0, results |-> b] :
          b \in {q \in SeqsUpTo(pool, MaxQ) : \A i, j \in 1..Len(q) : i # j => q[i] # q[j]}}

\* the replies of each service of the deployments
ResponseTable == [pool \in {d.served : d \in Deployments} |-> ResponsesFor(pool)]

\* the replies of the service of this deployment
Responses == ResponseTable[served]

\* the default of fetch_questions' parameter amount
amount == 10

\* the dict params of fetch_questions
params(difficulty, category_id) ==
  [amount |-> amount, category |-> category_id,
   difficulty |-> IF difficulty # "all" THEN difficulty ELSE "",
   type |-> "multiple", encode |-> "base64"]

\* fetch_questions: [results, notice, params]; results is <<the list>> or <<>>
\* for None, params the query handed to requests.get
fetch_questions(difficulty, category_id, resp) ==
  IF resp.kind = "network_error"
  THEN [results |-> <<>>, notice |-> "Network Error",
        params |-> params(difficulty, category_id)]
  ELSE IF resp.response_code = 0
       THEN [results |-> <<resp.results>>, notice |-> None,
             params |-> params(difficulty, category_id)]
       ELSE [results |-> <<>>, notice |-> "API Error",
             params |-> params(difficulty, category_id)]

\* a shuffle that loses the element appended last
ShufflesWithoutLast(l) ==
  {[i \in 1..(Len(l) - 1) |-> l[p[i]]] : p \in Permutations(1..(Len(l) - 1))}

\* the orders random.shuffle can leave a list in
Shuffles(l) ==
  {[i \in 1..Len(l) |-> l[p[i]]] : p \in Permutations(1..Len(l))}

\* one record of the loop in process_question_data: the questions it can
\* append, none when a field fails to decode
DecodeItem(item) ==
  LET q == DecodeField(item.question)
      c == DecodeField(item.correct_answer)
      inc == [i \in 1..Len(item.incorrect_answers) |-> DecodeField(item.incorrect_answers[i])]
      d == DecodeField(item.difficulty)
      k == DecodeField(item.category)
  IN IF q = <<>> \/ c = <<>> \/ d = <<>> \/ k = <<>> \/ (\E i \in 1..Len(inc) : inc[i] = <<>>)
     THEN {}
     ELSE {[question |-> q[1], options |-> o, answer |-> c[1],
            difficulty |-> d[1], category |-> k[1]] :
             o \in Shuffles([i \in 1..Len(inc) |-> inc[i][1]] \o <<c[1]>>)}

\* a loop that gives up at the first record that fails to decode
RECURSIVE process_question_data_stopping(_)
process_question_data_stopping(results) ==
  IF results = <<>> THEN {<<>>}
  ELSE LET first == DecodeItem(Head(results))
       IN IF first = {} THEN {<<>>}
          ELSE {<<f>> \o r : f \in first, r \in process_question_data_stopping(Tail(results))}

\* process_question_data: the frames it can return for a list of raw records
RECURSIVE process_question_data(_)
process_question_data(results) ==
  IF results = <<>> THEN {<<>>}
  ELSE LET first == DecodeItem(Head(results))
           rest == process_question_data(Tail(results))
       IN IF first = {} THEN rest
          ELSE {<<f>> \o r : f \in first, r \in rest}

\* process_question_data tabulated over the batches the services of the
\* deployments can send
decoded_frames ==
  [batch \in UNION {SeqsUpTo(d.served, MaxQ) : d \in Deployments} |->
     process_question_data(batch)]

\* ---- explanation service ------------------------------------------------
\* what requests.post to the Gemini endpoint can do
RemoteOutcomes == {"text", "http_error"}

\* fetch_explanation: the string returned
fetch_explanation(key, remote) ==
  IF ~key THEN "Explanation API Key is missing."
  ELSE CASE remote = "text" -> "explanation text"
         [] remote = "api_error" -> "Error retrieving explanation: API"
         [] remote = "http_error" -> "Error retrieving explanation: HTTP"
         [] OTHER -> "Could not retrieve a detailed explanation"

\* ---- leaderboard --------------------------------------------------------
\* the division without its guard
PercentageUnguarded(s, n) == [num |-> s * 100, den |-> n]

\* (score / num_questions) * 100 if num_questions > 0 else 0, as an exact fraction
Percentage(s, n) ==
  IF n > 0 THEN [num |-> s * 100, den |-> n] ELSE [num |-> 0, den |-> 1]
PctGeq(a, b) == a.num * b.den >= b.num * a.den
\* the fraction printed with one decimal, in tenths of a percent
Tenths(p) == (2 * 10 * p.num + p.den) \div (2 * p.den)

LeaderboardOffline ==
  <<[User |-> "Pr1meGG", Score |-> <<"Leaderboard Offline">>,
     Difficulty |-> "N/A", Category |-> "N/A"]>>

\* a save that stores the number of questions asked for as total_questions
save_score_to_db_requested_total(username, sc, n, difficulty, category, write) ==
  IF db = None
  THEN [store |-> store, notice |-> "Cannot save score"]
  ELSE LET score_data == [username |-> username, score |-> sc, total_questions |-> amount,
                          percentage |-> Percentage(sc, amount), difficulty |-> difficulty,
                          category |-> category]
       IN IF write = "ok"
          THEN [store |-> Append(store, score_data), notice |-> "Score saved"]
          ELSE [store |-> store, notice |-> "Error saving score"]

\* save_score_to_db: [store, notice]; write is what collection_ref.add does
save_score_to_db(username, sc, n, difficulty, category, write) ==
  IF db = None
  THEN [store |-> store, notice |-> "Cannot save score"]
  ELSE LET score_data == [username |-> username, score |-> sc, total_questions |-> n,
                          percentage |-> Percentage(sc, n), difficulty |-> difficulty,
                          category |-> category]
       IN IF write = "ok"
          THEN [store |-> Append(store, score_data), notice |-> "Score saved"]
          ELSE [store |-> store, notice |-> "Error saving score"]

\* get_leaderboard_data: the tables it can return for the documents docs
get_leaderboard_data(docs, limit) ==
  IF db = None THEN {LeaderboardOffline}
  ELSE {[i \in 1..(IF Len(docs) < limit THEN Len(docs) ELSE limit) |->
           [User |-> docs[p[i]].username,
            Score |-> <<docs[p[i]].score, docs[p[i]].total_questions,
                        Tenths(docs[p[i]].percentage)>>,
            Difficulty |-> docs[p[i]].difficulty,
            Category |-> docs[p[i]].category]] :
          p \in {q \in Permutations(1..Len(docs)) :
                   \A i, j \in 1..Len(docs) :
                     i < j => PctGeq(docs[q[i]].percentage, docs[q[j]].percentage)}}

\* display_leaderboard: the tables it can show
display_leaderboard(docs) ==
  IF db = None THEN get_leaderboard_data(docs, 0) ELSE get_leaderboard_data(docs, 10)

\* ---- bookkeeping of a step ------------------------------------------------
Done(op, text) ==
  /\ notice' = text
  /\ submit_calls' = IF op = "check_answer" THEN (IF submit_calls >= 1 THEN 2 ELSE 1) ELSE 0
  /\ IF op = "toggle_review_mode" THEN TRUE ELSE review_trace' = <<>>

\* main(): the display names of the stored settings
selected_difficulty_name ==
  IF \E n \in DOMAIN DIFFICULTY_OPTIONS : DIFFICULTY_OPTIONS[n] = selected_difficulty
  THEN CHOOSE n \in DOMAIN DIFFICULTY_OPTIONS : DIFFICULTY_OPTIONS[n] = selected_difficulty
  ELSE "Very Easy (All)"
selected_category_name ==
  IF \E n \in DOMAIN CATEGORY_OPTIONS : CATEGORY_OPTIONS[n] = selected_category
  THEN CHOOSE n \in DOMAIN CATEGORY_OPTIONS : CATEGORY_OPTIONS[n] = selected_category
  ELSE "Mix (Any Category)"

\* ---- state after the first script run of a browser session ---------------
Init ==
  /\ \E d \in Deployments : db = d.db /\ served = d.served
  /\ API_KEY \in BOOLEAN
  /\ selected_difficulty = "all"
  /\ selected_category = 0
  /\ quiz_started = Absent
  /\ questions_df = Absent
  /\ num_questions = Absent
  /\ current_index = Absent
  /\ score = Absent
  /\ submitted = Absent
  /\ answer_history = Absent
  /\ score_submitted = FALSE
  /\ review_mode = FALSE
  /\ last_result = None
  /\ radios = {}
  /\ store = <<>>
  /\ screen = "landing"
  /\ form_rendered = FALSE
  /\ leaderboard_view \in {<<v>> : v \in display_leaderboard(<<>>)}
  /\ notice = None
  /\ submit_calls = 0
  /\ fetch_log = <<>>
  /\ review_trace = <<>>
  /\ session_entries = 0
  /\ percentage_shown = Absent
  /\ request = Absent

\* ---- check_answer -------------------------------------------------------
\* a guard that accepts the radio key of any question
radio_key_of_any_question(idx) == radios # {}

\* f'radio_{current_index}' in st.session_state
radio_key_present(idx) == idx \in radios

\* a record that counts every choice as correct
answer_record_always_correct(q, user_choice) ==
  [question |-> q.question, user_answer |-> user_choice, correct_answer |-> q.answer,
   is_correct |-> TRUE, explanation |-> None]

\* the record check_answer appends
answer_record(q, user_choice) ==
  [question |-> q.question, user_answer |-> user_choice, correct_answer |-> q.answer,
   is_correct |-> (user_choice = q.answer), explanation |-> None]

\* a callback without the guard of line 166 and the row lookup of line 170:
\* every call moves the index
check_answer_every_call ==
  /\ screen = "quiz"
  /\ current_index' = <<(IF Has(current_index) THEN Val(current_index) ELSE 0) + 1>>
  /\ UNCHANGED <<quiz_started, questions_df, num_questions, score, submitted,
                 answer_history, score_submitted, review_mode, last_result>>
  /\ Done("check_answer", None)
  /\ UNCHANGED <<env, config, ui, store, fetch_log, session_entries, request>>

\* the "Submit Answer" callback; the form is on the page last rendered
check_answer ==
  /\ screen = "quiz"
  /\ \E user_choice \in RadioValues :
       IF ~Has(current_index)
       THEN UNCHANGED session /\ Done("check_answer", None)
       ELSE IF ~radio_key_present(Val(current_index))
       THEN UNCHANGED session /\ Done("check_answer", None)
       ELSE IF ~Has(questions_df) \/ Val(current_index) >= Len(Val(questions_df))
       THEN UNCHANGED session /\ Done("check_answer", None)
       ELSE LET q == Val(questions_df)[Val(current_index) + 1]
                rec == answer_record(q, user_choice)
                history == IF Has(answer_history) THEN Val(answer_history) ELSE <<>>
            IN /\ answer_history' = <<Append(history, rec)>>
               /\ submitted' = <<TRUE>>
               /\ score' = IF rec.is_correct THEN <<Val(score) + 1>> ELSE score
               /\ last_result' = IF rec.is_correct THEN "correct" ELSE "incorrect"
               /\ current_index' = <<Val(current_index) + 1>>
               /\ UNCHANGED <<quiz_started, questions_df, num_questions,
                              score_submitted, review_mode>>
               /\ Done("check_answer", None)
  /\ UNCHANGED <<env, config, ui, store, fetch_log, session_entries, request>>

\* ---- start_quiz ---------------------------------------------------------
\* a failed start that also rewinds current_index
start_failed_rewinding(op, started_before, text) ==
  /\ quiz_started' = started_before
  /\ current_index' = <<0>>
  /\ UNCHANGED <<questions_df, num_questions, score, submitted,
                 answer_history, score_submitted, review_mode, last_result,
                 fetch_log, session_entries>>
  /\ Done(op, text)

\* a start that did not begin a session: only quiz_started may have been
\* written by the caller
start_failed(op, started_before, text) ==
  /\ quiz_started' = started_before
  /\ UNCHANGED <<questions_df, num_questions, current_index, score, submitted,
                 answer_history, score_submitted, review_mode, last_result,
                 fetch_log, session_entries>>
  /\ Done(op, text)

\* a start that leaves score_submitted as the previous session left it
start_succeeded_keeping_submitted(op, frame) ==
  /\ questions_df' = <<frame>>
  /\ num_questions' = <<Len(frame)>>
  /\ score' = <<0>>
  /\ current_index' = <<0>>
  /\ submitted' = <<FALSE>>
  /\ quiz_started' = <<TRUE>>
  /\ UNCHANGED score_submitted
  /\ last_result' = None
  /\ review_mode' = FALSE
  /\ answer_history' = <<(<<>>)>>
  /\ fetch_log' = <<>>
  /\ session_entries' = 0
  /\ Done(op, None)

\* a start that takes the number of questions asked for as num_questions
start_succeeded_counting_requested(op, frame) ==
  /\ questions_df' = <<frame>>
  /\ num_questions' = <<amount>>
  /\ score' = <<0>>
  /\ current_index' = <<0>>
  /\ submitted' = <<FALSE>>
  /\ quiz_started' = <<TRUE>>
  /\ score_submitted' = FALSE
  /\ last_result' = None
  /\ review_mode' = FALSE
  /\ answer_history' = <<(<<>>)>>
  /\ fetch_log' = <<>>
  /\ session_entries' = 0
  /\ Done(op, None)

\* the assignments of start_quiz once a non-empty frame is decoded
start_succeeded(op, frame) ==
  /\ questions_df' = <<frame>>
  /\ num_questions' = <<Len(frame)>>
  /\ score' = <<0>>
  /\ current_index' = <<0>>
  /\ submitted' = <<FALSE>>
  /\ quiz_started' = <<TRUE>>
  /\ score_submitted' = FALSE
  /\ last_result' = None
  /\ review_mode' = FALSE
  /\ answer_history' = <<(<<>>)>>
  /\ fetch_log' = <<>>
  /\ session_entries' = 0
  /\ Done(op, None)

\* the body of start_quiz, run with quiz_started holding started_before
start_quiz_body(op, started_before, resp) ==
  LET fetched == fetch_questions(selected_difficulty, selected_category, resp)
  IN /\ request' = <<fetched.params>>
     /\ IF Has(fetched.results) /\ Val(fetched.results) # <<>>
        THEN \E frame \in decoded_frames[Val(fetched.results)] :
               IF frame # <<>>
               THEN start_succeeded(op, frame)
               ELSE start_failed(op, started_before,
                                 "Fetched questions were empty or corrupted")
        ELSE start_failed(op, started_before, fetched.notice)

\* the "START NEW QUIZ" callback of the landing page
start_quiz ==
  /\ screen = "landing"
  /\ \E resp \in Responses : start_quiz_body("start_quiz", quiz_started, resp)
  /\ UNCHANGED <<env, config, ui, store>>

\* the "Start New Challenge" callback of the results page
start_quiz_same_settings ==
  /\ screen = "results"
  /\ \E resp \in Responses :
       start_quiz_body("start_quiz_same_settings", <<FALSE>>, resp)
  /\ UNCHANGED <<env, config, ui, store>>

\* ---- reset_quiz ---------------------------------------------------------
\* a reset that forgets to delete answer_history
reset_quiz_keeping_history ==
  /\ quiz_started' = Absent
  /\ current_index' = <<0>>
  /\ score' = <<0>>
  /\ submitted' = <<FALSE>>
  /\ score_submitted' = FALSE
  /\ last_result' = None
  /\ review_mode' = FALSE
  /\ questions_df' = Absent
  /\ num_questions' = Absent
  /\ UNCHANGED <<answer_history, fetch_log>>
  /\ Done("reset_quiz", None)
  /\ UNCHANGED <<env, config, ui, store, session_entries, request>>

\* a reset that leaves the score as it is
reset_quiz_keeping_score ==
  /\ quiz_started' = Absent
  /\ current_index' = <<0>>
  /\ UNCHANGED score
  /\ submitted' = <<FALSE>>
  /\ score_submitted' = FALSE
  /\ last_result' = None
  /\ review_mode' = FALSE
  /\ questions_df' = Absent
  /\ num_questions' = Absent
  /\ answer_history' = Absent
  /\ fetch_log' = <<>>
  /\ Done("reset_quiz", None)
  /\ UNCHANGED <<env, config, ui, store, session_entries, request>>

\* a reset that leaves review_mode as it is
reset_quiz_keeping_review ==
  /\ quiz_started' = Absent
  /\ current_index' = <<0>>
  /\ score' = <<0>>
  /\ submitted' = <<FALSE>>
  /\ score_submitted' = FALSE
  /\ last_result' = None
  /\ UNCHANGED review_mode
  /\ questions_df' = Absent
  /\ num_questions' = Absent
  /\ answer_history' = Absent
  /\ fetch_log' = <<>>
  /\ Done("reset_quiz", None)
  /\ UNCHANGED <<env, config, ui, store, session_entries, request>>

\* the "Reset App" button of the sidebar is on every page, "Change Settings"
\* on the results page
reset_quiz ==
  /\ quiz_started' = Absent
  /\ current_index' = <<0>>
  /\ score' = <<0>>
  /\ submitted' = <<FALSE>>
  /\ score_submitted' = FALSE
  /\ last_result' = None
  /\ review_mode' = FALSE
  /\ questions_df' = Absent
  /\ num_questions' = Absent
  /\ answer_history' = Absent
  /\ fetch_log' = <<>>
  /\ Done("reset_quiz", None)
  /\ UNCHANGED <<env, config, ui, store, session_entries, request>>

\* ---- toggle_review_mode --------------------------------------------------
\* a test that asks for every explanation again
needs_explanation_always(item) == TRUE

\* item.get('explanation') is None
needs_explanation(item) == item.explanation = None

\* the positions the loop hands to fetch_explanation, in loop order
fetched_positions(history) ==
  SelectSeq([i \in 1..Len(history) |-> i], LAMBDA i : needs_explanation(history[i]))

\* a loop that also marks the items it explains as answered correctly
with_explanations_marking_correct(history, remote) ==
  [i \in 1..Len(history) |->
     IF needs_explanation(history[i])
     THEN [history[i] EXCEPT !.explanation = fetch_explanation(API_KEY, remote[i]),
                             !.is_correct = TRUE]
     ELSE history[i]]

\* the history after the loop, remote[i] being the service's reply for item i
with_explanations(history, remote) ==
  [i \in 1..Len(history) |->
     IF needs_explanation(history[i])
     THEN [history[i] EXCEPT !.explanation = fetch_explanation(API_KEY, remote[i])]
     ELSE history[i]]

\* the events of the callback
Fetch(i) == [ev |-> "fetch", pos |-> i]
Store(i) == [ev |-> "store", pos |-> i]
Flip == [ev |-> "flip", pos |-> 0]

\* a loop that asks for every missing explanation before it stores any
loop_events_batched(history, i) ==
  LET missing == SelectSeq([k \in 1..Len(history) |-> k],
                           LAMBDA k : k >= i /\ needs_explanation(history[k]))
  IN [k \in 1..Len(missing) |-> Fetch(missing[k])]
     \o [k \in 1..Len(missing) |-> Store(missing[k])]

\* the for loop from its iteration i on: the call of fetch_explanation and
\* the assignment of its result, item by item
RECURSIVE loop_events(_, _)
loop_events(history, i) ==
  IF i > Len(history) THEN <<>>
  ELSE (IF needs_explanation(history[i]) THEN <<Fetch(i), Store(i)>> ELSE <<>>)
       \o loop_events(history, i + 1)

\* "Review Answers" on the results page, "Return to Results" on the review page
toggle_review_mode ==
  /\ screen \in {"results", "review"}
  /\ IF ~review_mode /\ Has(answer_history) /\ Val(answer_history) # <<>>
     THEN IF ~API_KEY
          THEN /\ review_mode' = ~review_mode
               /\ review_trace' = <<Flip>>
               /\ UNCHANGED <<answer_history, fetch_log>>
               /\ Done("toggle_review_mode", "Cannot fetch explanations")
          ELSE \E remote \in [1..Len(Val(answer_history)) -> RemoteOutcomes] :
                 /\ answer_history' = <<with_explanations(Val(answer_history), remote)>>
                 /\ fetch_log' = fetch_log \o fetched_positions(Val(answer_history))
                 /\ review_trace' = Append(loop_events(Val(answer_history), 1), Flip)
                 /\ review_mode' = ~review_mode
                 /\ Done("toggle_review_mode", None)
     ELSE /\ review_mode' = ~review_mode
          /\ review_trace' = <<Flip>>
          /\ UNCHANGED <<answer_history, fetch_log>>
          /\ Done("toggle_review_mode", None)
  /\ UNCHANGED <<env, config, ui, store, session_entries, quiz_started, questions_df,
                 num_questions, current_index, score, submitted, score_submitted,
                 last_result, request>>

\* "Refresh Leaderboard": the callback calls st.rerun(), which does nothing there
refresh_leaderboard ==
  /\ screen = "results"
  /\ Done("refresh_leaderboard", None)
  /\ UNCHANGED <<env, config, ui, store, session, fetch_log, session_entries, request>>

\* ---- main(): one script run -----------------------------------------------
\* widget is the widget whose event started the run ("none" for a plain
\* rerun), value what it holds, write what collection_ref.add does
display_review_page ==
  /\ screen' = "review"
  /\ radios' = {}
  /\ form_rendered' = FALSE
  /\ leaderboard_view' = Absent
  /\ percentage_shown' = Absent
  /\ UNCHANGED <<config, store, score_submitted, last_result, session_entries>>
  /\ Done("main",
          IF Has(answer_history) /\ Val(answer_history) # <<>> THEN None
          ELSE "No quiz history found to review.")

landing_page(widget, value) ==
  /\ screen' = "landing"
  /\ radios' = {}
  /\ form_rendered' = FALSE
  /\ selected_difficulty' =
       IF widget = "difficulty_select" THEN DIFFICULTY_OPTIONS[value] ELSE selected_difficulty
  /\ selected_category' =
       IF widget = "category_select" THEN CATEGORY_OPTIONS[value] ELSE selected_category
  /\ \E table \in display_leaderboard(store) : leaderboard_view' = <<table>>
  /\ percentage_shown' = Absent
  /\ UNCHANGED <<store, score_submitted, last_result, session_entries>>
  /\ Done("main", None)

active_quiz_screen ==
  /\ screen' = "quiz"
  /\ radios' = {Val(current_index)}
  /\ form_rendered' = FALSE
  /\ leaderboard_view' = Absent
  /\ percentage_shown' = Absent
  /\ last_result' = None
  /\ UNCHANGED <<config, store, score_submitted, session_entries>>
  /\ Done("main", None)

\* a form shown whether or not the score was submitted
score_form_ignoring_submitted == db # None

\* a form shown whether or not Firestore is there
score_form_ignoring_db == score_submitted = FALSE

\* st.session_state.score_submitted is False and st.session_state.get('db') is not None
score_form_shown == score_submitted = FALSE /\ db # None

quiz_finished_screen(widget, value, write) ==
  /\ screen' = "results"
  /\ radios' = {}
  /\ percentage_shown' = <<Percentage(Val(score), Val(num_questions))>>
  /\ UNCHANGED <<config, last_result>>
  /\ IF score_form_shown
     THEN IF widget = "score_form"
          THEN IF value # ""
               THEN LET saved == save_score_to_db(value, Val(score), Val(num_questions),
                                                  selected_difficulty_name,
                                                  selected_category_name, write)
                    IN /\ store' = saved.store
                       /\ session_entries' = session_entries + (Len(saved.store) - Len(store))
                       /\ score_submitted' = TRUE
                       /\ form_rendered' = FALSE
                       /\ \E table \in display_leaderboard(saved.store) :
                            leaderboard_view' = <<table>>
                       /\ Done("main", saved.notice)
               ELSE /\ form_rendered' = TRUE
                    /\ \E table \in display_leaderboard(store) : leaderboard_view' = <<table>>
                    /\ UNCHANGED <<store, score_submitted, session_entries>>
                    /\ Done("main", "Please enter a username")
          ELSE /\ form_rendered' = TRUE
               /\ \E table \in display_leaderboard(store) : leaderboard_view' = <<table>>
               /\ UNCHANGED <<store, score_submitted, session_entries>>
               /\ Done("main", None)
     ELSE /\ form_rendered' = FALSE
          /\ \E table \in display_leaderboard(store) : leaderboard_view' = <<table>>
          /\ UNCHANGED <<store, score_submitted, session_entries>>
          /\ Done("main", None)

main(widget, value, write) ==
  /\ IF review_mode
     THEN display_review_page
     ELSE IF ~Has(quiz_started) \/ Val(quiz_started) = FALSE
     THEN landing_page(widget, value)
     ELSE IF Val(current_index) < Val(num_questions)
     THEN active_quiz_screen
     ELSE quiz_finished_screen(widget, value, write)
  /\ UNCHANGED <<env, quiz_started, questions_df, num_questions, current_index, score,
                 submitted, answer_history, review_mode, fetch_log, request>>

\* the script run that follows a callback, or a reload of the page
rerun == main("none", None, "ok")

\* the respondent picks an entry of a select box of the landing page
select_difficulty ==
  /\ screen = "landing"
  /\ \E name \in DifficultyChoices : main("difficulty_select", name, "ok")

select_category ==
  /\ screen = "landing"
  /\ \E name \in CategoryChoices : main("category_select", name, "ok")

\* the respondent submits the score form of the results page
submit_score_form ==
  /\ form_rendered
  /\ Len(store) < MaxStore
  /\ \E username \in Usernames, write \in {"ok", "error"} :
       main("score_form", username, write)

Next ==
  \/ check_answer
  \/ start_quiz
  \/ start_quiz_same_settings
  \/ reset_quiz
  \/ toggle_review_mode
  \/ refresh_leaderboard
  \/ rerun
  \/ select_difficulty
  \/ select_category
  \/ submit_score_form

Spec == Init /\ [][Next]_vars

\* ---- vocabulary of the properties ------------------------------------------
\* the page main() routes to, review aside
QuizStatus ==
  IF ~Has(quiz_started) \/ Val(quiz_started) = FALSE THEN "Idle"
  ELSE IF Val(current_index) < Val(num_questions) THEN "InProgress"
  ELSE "Completed"

History == IF Has(answer_history) THEN Val(answer_history) ELSE <<>>
HistoryLength == Len(History)
IndexOrZero == IF Has(current_index) THEN Val(current_index) ELSE 0
ScoreOrZero == IF Has(score) THEN Val(score) ELSE 0

IsPrefix(a, b) == Len(a) <= Len(b) /\ \A i \in 1..Len(a) : a[i] = b[i]

StartErrors == {"Network Error", "API Error", "Fetched questions were empty or corrupted"}

\* the session as start_quiz leaves it when it succeeds
FreshSession ==
  /\ quiz_started = <<TRUE>>
  /\ Has(questions_df)
  /\ current_index = <<0>>
  /\ score = <<0>>
  /\ answer_history = <<(<<>>)>>
  /\ score_submitted = FALSE
  /\ review_mode = FALSE

\* what every step of start_quiz and start_quiz_same_settings does, whatever
\* the reply: the page, the collection and the settings stay, the request
\* is sent
StartStepFrame ==
  /\ screen \in {"landing", "results"}
  /\ UNCHANGED <<ui, store, config>>
  /\ submit_calls' = 0
  /\ review_trace' = <<>>
  /\ request' = <<params(selected_difficulty, selected_category)>>

\* a step of start_quiz or start_quiz_same_settings that began no session
FailedStartStep ==
  /\ notice' \in StartErrors \/ ~FreshSession'
  /\ StartStepFrame
  /\ start_quiz \/ start_quiz_same_settings

\* ---- C1 ------------------------------------------------------------------
\* C1: a check_answer call for the question on the page appends exactly one
\* record, advances current_index by one and raises score by at most one;
\* a check_answer call that follows another one with no script run between
\* changes none of score, answer_history and current_index.
C1_SubmitOnce ==
  [][ /\ (submit_calls = 0 /\ submit_calls' = 1
            /\ QuizStatus = "InProgress" /\ radios = {IndexOrZero})
         => /\ HistoryLength' = HistoryLength + 1
            /\ IndexOrZero' = IndexOrZero + 1
            /\ ScoreOrZero' - ScoreOrZero \in {0, 1}
      /\ (submit_calls >= 1 /\ submit_calls' = 2)
         => UNCHANGED <<score, answer_history, current_index>> ]_vars

\* the first of two questions was submitted twice in a row
C1_Witness ==
  /\ submit_calls = 2
  /\ HistoryLength = 1
  /\ current_index = <<1>>
  /\ num_questions = <<2>>

\* ---- C2 ------------------------------------------------------------------
\* C2: in every reachable state answer_history has as many records as
\* current_index says (an absent key counting as empty, respectively 0).
C2_HistoryMatchesIndex == HistoryLength = IndexOrZero

\* two answers were recorded and the review page is shown
C2_Witness == HistoryLength = 2 /\ review_mode /\ screen = "review"

C4_SubmittedOnlyAfterWrite == score_submitted => session_entries >= 1

\* ---- C5 ------------------------------------------------------------------
\* C5: between two successful starts at most one document is added, and the
\* collection only grows: every step leaves the documents it held in place.
C5_OneEntryPerSession ==
  [][ session_entries' <= 1 /\ IsPrefix(store, store') ]_vars

\* a second session added its document and is under review
C5_Witness ==
  /\ Len(store) = 2
  /\ session_entries = 1
  /\ score_submitted
  /\ review_mode

\* ---- C6 ------------------------------------------------------------------
\* C6: without Firestore (db is None) save_score_to_db adds nothing and
\* reports an error, score_submitted stays false, no document is ever added,
\* the submission form is not offered, and the leaderboard shown is the
\* offline placeholder.
C6_OfflineLeaderboard ==
  db = None
  => /\ score_submitted = FALSE
     /\ store = <<>>
     /\ session_entries = 0
     /\ ~form_rendered
     /\ Has(leaderboard_view) => Val(leaderboard_view) = LeaderboardOffline
     /\ get_leaderboard_data(store, 10) = {LeaderboardOffline}
     /\ \A u \in Usernames, w \in {"ok", "error"} :
          LET saved == save_score_to_db(u, ScoreOrZero, HistoryLength,
                                        selected_difficulty_name,
                                        selected_category_name, w)
          IN saved.store = store /\ saved.notice = "Cannot save score"

\* a finished quiz shows the placeholder on its results page
C6_Witness ==
  /\ db = None
  /\ QuizStatus = "Completed"
  /\ screen = "results"
  /\ leaderboard_view = <<LeaderboardOffline>>
  /\ ScoreOrZero = 2

\* ---- C7 ------------------------------------------------------------------
\* the positions a step adds to fetch_log
NewFetches ==
  IF IsPrefix(fetch_log, fetch_log')
  THEN {fetch_log'[k] : k \in (Len(fetch_log) + 1)..Len(fetch_log')}
  ELSE {}

\* C7: fetch_explanation is called only for records whose explanation is
\* unset, no record of a history is handed to it twice, and an explanation
\* that is set is the same after every step that keeps the record.
C7_ExplanationFetchedOnce ==
  [][ /\ \A i \in NewFetches :
           i \in 1..HistoryLength /\ History[i].explanation = None
      /\ \A j, k \in 1..Len(fetch_log') : j # k => fetch_log'[j] # fetch_log'[k]
      /\ \A i \in 1..HistoryLength :
           (i <= HistoryLength' /\ History[i].explanation # None)
           => History'[i].explanation = History[i].explanation ]_vars

\* review was entered, shown and left again after two answers: two calls
\* of toggle_review_mode, two fetches
C7_Witness ==
  /\ screen = "review"
  /\ review_mode = FALSE
  /\ fetch_log = <<1, 2>>
  /\ HistoryLength = 2
  /\ \A i \in 1..2 : History[i].explanation # None

\* ---- C8 ------------------------------------------------------------------
\* C8: whenever review_mode is true every record of the history has an
\* explanation.
C8_ReviewHasExplanations ==
  review_mode => \A i \in 1..HistoryLength : History[i].explanation # None

\* ---- C9 ------------------------------------------------------------------
\* C9: start_quiz_same_settings leaves the selected difficulty and category
\* as they were and, whether or not the fetch succeeds, leaves score 0,
\* current_index 0, the history empty and no questions but those of a
\* session it has just started.
C9_RestartResets ==
  [][ start_quiz_same_settings
      => /\ UNCHANGED config
         /\ score' = <<0>>
         /\ current_index' = <<0>>
         /\ HistoryLength' = 0
         /\ Has(questions_df') => FreshSession' ]_vars

\* ---- C10 -----------------------------------------------------------------
\* C10: reset_quiz can be taken in every state, and every step of it ends
\* Idle, without questions and history, with current_index 0, score 0,
\* score_submitted and review_mode false, and with the selected difficulty
\* and category it started with.
C10_ResetFromAnywhere ==
  /\ [](ENABLED reset_quiz)
  /\ [][ reset_quiz
         => /\ QuizStatus' = "Idle"
            /\ ~Has(questions_df') /\ ~Has(num_questions') /\ HistoryLength' = 0
            /\ current_index' = <<0>> /\ score' = <<0>>
            /\ score_submitted' = FALSE /\ review_mode' = FALSE
            /\ UNCHANGED config ]_vars

\* the review page of a quiz on "easy" is still shown and the session is reset
C10_Witness ==
  /\ screen = "review"
  /\ ~Has(quiz_started) /\ ~Has(questions_df) /\ ~Has(answer_history)
  /\ current_index = <<0>> /\ score = <<0>>
  /\ review_mode = FALSE
  /\ selected_difficulty = "easy"

\* ---- C11 -----------------------------------------------------------------
\* a step of start_quiz or start_quiz_same_settings that received resp
StartStepWith(resp) ==
  \/ screen = "landing" /\ start_quiz_body("start_quiz", quiz_started, resp)
  \/ screen = "results" /\ start_quiz_body("start_quiz_same_settings", <<FALSE>>, resp)

\* the replies whose records decode to at least one question, for each
\* service of the deployments
DecodableTable ==
  [pool \in {d.served : d \in Deployments} |->
     {resp \in ResponsesFor(pool) :
        /\ resp.kind = "json" /\ resp.response_code = 0
        /\ \E frame \in process_question_data(resp.results) : frame # <<>>}]

DecodableResponses == DecodableTable[served]

\* C11: a start that decodes a non-empty batch, whatever the session held
\* before, leaves an InProgress session whose questions are a decoding of
\* that batch, with current_index 0, score 0, an empty history,
\* score_submitted false and review_mode false.
C11_SuccessfulStart ==
  [][ StartStepFrame
      => \A resp \in DecodableResponses :
           \/ /\ QuizStatus' = "InProgress"
              /\ Has(questions_df')
              /\ Val(questions_df') \in decoded_frames[resp.results]
              /\ current_index' = <<0>>
              /\ score' = <<0>>
              /\ answer_history' = <<(<<>>)>>
              /\ score_submitted' = FALSE
              /\ review_mode' = FALSE
           \/ ~StartStepWith(resp) ]_vars

\* "Start New Challenge" began a session on the results page of a session
\* whose score is on the leaderboard
C11_Witness ==
  /\ screen = "results"
  /\ FreshSession
  /\ QuizStatus = "InProgress"
  /\ Len(store) = 1
  /\ session_entries = 0

\* ---- C12 -----------------------------------------------------------------
\* the submitted choices that are the string questions_df holds as the answer
CorrectChoices ==
  Cardinality({i \in 1..HistoryLength :
                 History[i].user_answer = Val(questions_df)[i].answer})

\* C12: a started session of n questions is Completed exactly when its
\* history holds n answers; its score is the number k of recorded choices
\* equal to the answer of their question, and the results page of the
\* Completed session shows the percentage 100 * k / n, "100.0" when k = n.
C12_CompletedWhenAllAnswered ==
  quiz_started = <<TRUE>>
  => /\ (QuizStatus = "Completed") <=> (HistoryLength = Val(num_questions))
     /\ Val(score) = CorrectChoices
     /\ (QuizStatus = "Completed" /\ screen = "results")
        => /\ Has(percentage_shown)
           /\ Val(percentage_shown).den # 0
           /\ Val(percentage_shown).num * Val(num_questions)
                = 100 * CorrectChoices * Val(percentage_shown).den
           /\ CorrectChoices = Val(num_questions)
              => Tenths(Val(percentage_shown)) = 1000

\* every question of the longest batch was answered correctly
C12_Witness ==
  /\ QuizStatus = "Completed"
  /\ screen = "results"
  /\ num_questions = <<MaxQ>>
  /\ score = <<MaxQ>>
  /\ HistoryLength = MaxQ
  /\ Has(percentage_shown) /\ Tenths(Val(percentage_shown)) = 1000

\* ---- C13 -----------------------------------------------------------------
QuestionsLength == IF Has(questions_df) THEN Len(Val(questions_df)) ELSE 0

\* C13: in every reachable state 0 <= current_index <= len(questions_df)
\* (absent keys counting as 0 and as no questions), and a check_answer call
\* changes the session only when the session is InProgress: called in Idle
\* or Completed it leaves every key of the session as it was.
C13_IndexWithinQuestions ==
  /\ [](0 <= IndexOrZero /\ IndexOrZero <= QuestionsLength)
  /\ [][ (submit_calls' >= 1 /\ QuizStatus # "InProgress") => UNCHANGED session ]_vars

\* "Submit Answer" was pressed again on the page of the last question after
\* the session was Completed
C13_Witness ==
  /\ submit_calls = 2
  /\ QuizStatus = "Completed"
  /\ screen = "quiz"
  /\ IndexOrZero = QuestionsLength
  /\ QuestionsLength = MaxQ

\* ---- C14 -----------------------------------------------------------------
\* C14: whenever review_mode is true the session is started and
\* current_index equals the number of questions.
C14_ReviewOnlyWhenCompleted ==
  review_mode => (QuizStatus = "Completed" /\ IndexOrZero = QuestionsLength)

\* ---- C15 -----------------------------------------------------------------
\* the batches process_question_data is checked on: up to MaxQ records,
\* well-formed, malformed or lacking a key, repetitions included
RawBatches == SeqsUpTo(RawItems \cup {RawMissing}, MaxQ)

\* process_question_data applied to every batch: the answer of each question
\* returned is one of its options
DecodedAnswerAmongOptions ==
  \A batch \in RawBatches :
    \A frame \in process_question_data(batch) :
      \A i \in 1..Len(frame) : frame[i].answer \in Range(frame[i].options)

\* C15: every question process_question_data can return for a batch, under
\* every order the shuffle can pick, has its answer among its options; so
\* has every question of questions_df.
C15_AnswerAmongOptions ==
  /\ DecodedAnswerAmongOptions
  /\ Has(questions_df)
     => \A i \in 1..Len(Val(questions_df)) :
          Val(questions_df)[i].answer \in Range(Val(questions_df)[i].options)

\* a session whose shuffles put the answer first in one question and last in
\* another
C15_Witness ==
  /\ Has(questions_df)
  /\ Len(Val(questions_df)) = 2
  /\ Val(questions_df)[1].options[1] = Val(questions_df)[1].answer
  /\ Val(questions_df)[2].options[2] = Val(questions_df)[2].answer

\* ---- C16 -----------------------------------------------------------------
\* no expression of the try block raises for item
Decodes(item) ==
  /\ DecodeField(item.question) # <<>>
  /\ DecodeField(item.correct_answer) # <<>>
  /\ \A i \in 1..Len(item.incorrect_answers) : DecodeField(item.incorrect_answers[i]) # <<>>
  /\ DecodeField(item.difficulty) # <<>>
  /\ DecodeField(item.category) # <<>>

\* the records of a batch that decode, in the order of the batch
Kept(batch) == SelectSeq(batch, Decodes)

\* the replies that carry records none of which decodes, for each service
\* of the deployments
AllDroppedTable ==
  [pool \in {d.served : d \in Deployments} |->
     {resp \in ResponsesFor(pool) :
        /\ resp.kind = "json" /\ resp.response_code = 0
        /\ resp.results # <<>> /\ Kept(resp.results) = <<>>}]

AllDroppedResponses == AllDroppedTable[served]

\* process_question_data applied to every batch: the questions returned are
\* the decoded records of Kept(batch), one for one and in that order
DecodedAreTheKept ==
  \A batch \in RawBatches :
    /\ process_question_data(batch) # {}
    /\ \A frame \in process_question_data(batch) :
         /\ Len(frame) = Len(Kept(batch))
         /\ \A i \in 1..Len(frame) :
              LET item == Kept(batch)[i]
              IN /\ frame[i].question = Val(DecodeField(item.question))
                 /\ frame[i].answer = Val(DecodeField(item.correct_answer))
                 /\ frame[i].difficulty = Val(DecodeField(item.difficulty))
                 /\ frame[i].category = Val(DecodeField(item.category))
                 /\ Range(frame[i].options) =
                      {Val(DecodeField(item.incorrect_answers[j])) :
                         j \in 1..Len(item.incorrect_answers)}
                      \cup {Val(DecodeField(item.correct_answer))}

\* C16: process_question_data returns, for every batch, one question per
\* record that decodes, in the order of the batch, holding the decoded
\* texts of that record, and nothing for the other records; a start whose
\* batch has records none of which decodes reports "Fetched questions were
\* empty or corrupted" and leaves the questions, the counters and the
\* history as they were, starting no session.
C16_DropsUndecodable ==
  /\ []DecodedAreTheKept
  /\ [][ StartStepFrame
         => \A resp \in AllDroppedResponses :
           StartStepWith(resp)
           => /\ notice' = "Fetched questions were empty or corrupted"
              /\ UNCHANGED <<questions_df, num_questions, current_index, score,
                             answer_history, score_submitted, review_mode>>
              /\ quiz_started' = <<TRUE>> => quiz_started = <<TRUE>> ]_vars

\* the first start of a browser session got only records that do not decode
C16_Witness ==
  /\ notice = "Fetched questions were empty or corrupted"
  /\ Has(request)
  /\ screen = "landing"
  /\ QuizStatus = "Idle"
  /\ ~Has(questions_df)

\* ---- C17 -----------------------------------------------------------------
\* C17: num_questions is there exactly when questions_df is, and is the
\* number of questions decoded, which in every session of the model is below
\* the amount asked for; a started session is Completed exactly when
\* current_index equals that number.
C17_ActualCount ==
  /\ Has(num_questions) <=> Has(questions_df)
  /\ Has(num_questions)
     => /\ Val(num_questions) = Len(Val(questions_df))
        /\ Val(num_questions) < amount
        /\ Has(request) /\ Val(request).amount = amount
  /\ quiz_started = <<TRUE>>
     => ((QuizStatus = "Completed") <=> (Val(current_index) = Len(Val(questions_df))))

\* ten questions were asked for, one was decoded and answered, and the
\* results page is shown
C17_Witness ==
  /\ Has(request) /\ Val(request).amount = 10
  /\ num_questions = <<1>>
  /\ current_index = <<1>>
  /\ QuizStatus = "Completed"
  /\ screen = "results"
  /\ db = "client"

\* ---- C18 -----------------------------------------------------------------
\* C18: the request a start sends has no difficulty parameter when the
\* selected difficulty is "all", and has the selected difficulty as its
\* difficulty parameter otherwise.
C18_WildcardOmitted ==
  [][ StartStepFrame
      => IF selected_difficulty = "all"
         THEN "difficulty" \notin DOMAIN Val(request')
         ELSE /\ "difficulty" \in DOMAIN Val(request')
              /\ Val(request').difficulty = selected_difficulty ]_vars

\* ---- C19 -----------------------------------------------------------------
\* the fraction p is 100 * s / n, and 0 when n is 0
IsPercentOf(p, s, n) ==
  /\ p.den # 0
  /\ IF n > 0 THEN p.num * n = 100 * s * p.den ELSE p.num = 0

\* the expression of lines 291 and 580 on every score and total up to MaxQ,
\* total 0 included
PercentageGuarded ==
  \A s \in 0..MaxQ, n \in 0..MaxQ : IsPercentOf(Percentage(s, n), s, n)

\* C19: the percentage is 100 * score / total_questions when total_questions
\* is positive and 0 when it is 0, without a division by zero: for every
\* score and total, in every document of the collection, and on the results
\* page for the score and the number of questions of the session shown.
C19_PercentageGuarded ==
  /\ PercentageGuarded
  /\ \A i \in 1..Len(store) :
       IsPercentOf(store[i].percentage, store[i].score, store[i].total_questions)
  /\ (screen = "results" /\ QuizStatus = "Completed")
     => /\ Has(percentage_shown)
        /\ IsPercentOf(Val(percentage_shown), Val(score), Val(num_questions))

\* a score of 1 out of 1 is in the collection and on the results page
C19_Witness ==
  /\ Len(store) >= 1
  /\ store[1].score = 1 /\ store[1].total_questions = 1
  /\ Tenths(store[1].percentage) = 1000
  /\ screen = "results"
  /\ QuizStatus = "Completed"
  /\ Has(percentage_shown) /\ Tenths(Val(percentage_shown)) = 1000

\* ---- C20 -----------------------------------------------------------------
\* the recorded answers of a history, explanations left out
Answers(history) ==
  [i \in 1..Len(history) |->
     [question |-> history[i].question, user_answer |-> history[i].user_answer,
      correct_answer |-> history[i].correct_answer, is_correct |-> history[i].is_correct]]

\* C20: a step of toggle_review_mode, of the score form (submit_score_form),
\* of "Refresh Leaderboard" or of a script run that reads the leaderboard
\* (rerun, select_difficulty, select_category) leaves score, current_index,
\* questions_df and the question, user_answer, correct_answer and is_correct
\* of every record of the history as they were; toggle_review_mode changes
\* nothing of the session but review_mode and explanations.
C20_OnlySubmitScores ==
  [][ /\ \/ /\ UNCHANGED <<score, current_index, questions_df, num_questions>>
            /\ Has(answer_history') <=> Has(answer_history)
            /\ Answers(History') = Answers(History)
         \/ ~(toggle_review_mode \/ submit_score_form \/ refresh_leaderboard
                \/ rerun \/ select_difficulty \/ select_category)
      /\ \/ UNCHANGED <<quiz_started, submitted, score_submitted, last_result, store>>
         \/ ~toggle_review_mode ]_vars

\* a finished session with one wrong answer put its score on the
\* leaderboard and fetched its explanations for the review
C20_Witness ==
  /\ session_entries = 1
  /\ score_submitted
  /\ review_mode
  /\ HistoryLength >= 1
  /\ \A i \in 1..HistoryLength : History[i].explanation # None
  /\ \E i \in 1..HistoryLength : ~History[i].is_correct

\* ---- C21 -----------------------------------------------------------------
\* the indices of review_trace holding an event of kind ev
EventsOf(ev) == {k \in 1..Len(review_trace) : review_trace[k].ev = ev}

\* the trace of the last call: fetches in history order, each followed at
\* once by its store, the flip last
TraceInOrder ==
  /\ \A k \in EventsOf("fetch") :
       /\ k < Len(review_trace)
       /\ review_trace[k + 1] = Store(review_trace[k].pos)
  /\ \A j, k \in EventsOf("fetch") :
       (j < k) => (/\ review_trace[j].pos < review_trace[k].pos
                   /\ \E m \in EventsOf("store") :
                        j < m /\ m < k /\ review_trace[m].pos = review_trace[j].pos)
  /\ (review_trace # <<>> => EventsOf("flip") = {Len(review_trace)})

\* C21: in the trace of every toggle_review_mode call the fetches come in
\* history order, the result of a fetch is stored before the next fetch is
\* issued (so the fetch for record i comes after the store for every
\* record j < i that was fetched), and the flip of review_mode is the last
\* event, after the store of the last fetch; the records fetched are
\* records without an explanation, and they have one when the call returns.
C21_SequentialFetches ==
  /\ []TraceInOrder
  /\ [][ toggle_review_mode
         => /\ review_mode' = ~review_mode
            /\ EventsOf("flip")' = {Len(review_trace')}
            /\ \A k \in EventsOf("fetch")' :
                 /\ review_trace'[k].pos \in 1..HistoryLength
                 /\ History[review_trace'[k].pos].explanation = None
                 /\ History'[review_trace'[k].pos].explanation # None
            /\ LET fetches == SelectSeq(review_trace', LAMBDA e : e.ev = "fetch")
               IN fetch_log' = fetch_log \o [k \in 1..Len(fetches) |-> fetches[k].pos] ]_vars

\* review was entered after two answers: two fetches, each stored before
\* the next, then the flip
C21_Witness ==
  /\ review_trace = <<Fetch(1), Store(1), Fetch(2), Store(2), Flip>>
  /\ review_mode
  /\ HistoryLength = 2

\* ---- C22 -----------------------------------------------------------------
\* the records of the history marked correct
MarkedCorrect == {i \in 1..HistoryLength : History[i].is_correct}

\* C22: in every reachable state score is the number of records of the
\* history whose is_correct is true, 0 <= score <= current_index <=
\* len(questions_df) (absent keys counting as 0 and as empty); is_correct of
\* a record is (user_answer = correct_answer), and its correct_answer is
\* the answer of the question at its position in questions_df.
C22_ScoreCountsCorrect ==
  /\ ScoreOrZero = Cardinality(MarkedCorrect)
  /\ 0 <= ScoreOrZero
  /\ ScoreOrZero <= IndexOrZero
  /\ IndexOrZero <= QuestionsLength
  /\ \A i \in 1..HistoryLength :
       /\ History[i].is_correct <=> (History[i].user_answer = History[i].correct_answer)
       /\ i <= QuestionsLength
       /\ History[i].correct_answer = Val(questions_df)[i].answer

\* two answers, the first right and the second wrong
C22_Witness ==
  /\ HistoryLength = 2
  /\ History[1].is_correct
  /\ ~History[2].is_correct
  /\ History[2].user_answer # None
  /\ score = <<1>>
  /\ current_index = <<2>>

\* ---- C23 -----------------------------------------------------------------
\* the record a step appends to the history
LastRecord == History[HistoryLength]

\* a check_answer call whose radio value is None and which is accepted
NoneSubmit ==
  /\ check_answer
  /\ HistoryLength' = HistoryLength + 1
  /\ LastRecord'.user_answer = None
  /\ LastRecord'.is_correct = FALSE
  /\ score' = score
  /\ current_index' = <<Val(current_index) + 1>>

\* C23: whenever the page shows the current question of an InProgress
\* session, "Submit Answer" with nothing selected is accepted; and every
\* step that appends a record whose user_answer is None marks it incorrect,
\* leaves the score and the earlier records as they were and advances
\* current_index by one.
C23_NoneAccepted ==
  /\ []((screen = "quiz" /\ QuizStatus = "InProgress" /\ radios = {IndexOrZero})
         => ENABLED NoneSubmit)
  /\ [][ (submit_calls' >= 1 /\ HistoryLength' = HistoryLength + 1
            /\ LastRecord'.user_answer = None)
         => /\ LastRecord'.is_correct = FALSE
            /\ score' = score
            /\ IndexOrZero' = IndexOrZero + 1
            /\ IsPrefix(History, History') ]_vars

\* the only question of a session was submitted with nothing selected: the
\* recorded answer is none of its options
C23_Witness ==
  /\ HistoryLength = 1
  /\ History[1].user_answer = None
  /\ History[1].user_answer \notin Range(Val(questions_df)[1].options)
  /\ ~History[1].is_correct
  /\ score = <<0>>
  /\ current_index = <<1>>
  /\ QuizStatus = "Completed"

\* ---- C24 -----------------------------------------------------------------
\* C24: a step that adds a document to the collection adds exactly one, at
\* the end, in a state where the session is Completed and stays so, db is
\* there, score_submitted is false and review_mode is false; the document
\* has a non-empty username, the score of the session as its score and the
\* number of questions of the session as its total_questions. So no
\* document is added for an Idle or InProgress session.
C24_EntryOnlyWhenCompleted ==
  [][ store' # store
      => /\ Len(store') = Len(store) + 1
         /\ IsPrefix(store, store')
         /\ QuizStatus = "Completed" /\ QuizStatus' = "Completed"
         /\ db # None
         /\ score_submitted = FALSE
         /\ review_mode = FALSE
         /\ store'[Len(store')].username # ""
         /\ store'[Len(store')].score = Val(score)
         /\ store'[Len(store')].total_questions = Val(num_questions)
         /\ Val(num_questions) = QuestionsLength
         /\ Val(current_index) = QuestionsLength ]_vars

\* a Completed session with no correct answer has its 0 out of 1 in the
\* collection
C24_Witness ==
  /\ Len(store) = 1
  /\ store[1].username = "Pr1meGG"
  /\ store[1].score = 0 /\ store[1].total_questions = 1
  /\ QuizStatus = "Completed"
  /\ score = <<0>> /\ num_questions = <<1>>
  /\ session_entries = 1

====
